---- MODULE Spec2Model ----
(***************************************************************************)
(* The AWS EBS CSI driver operator (pkg/operator/starter.go): the          *)
(* controller-deployment hook pipeline, the conditional resource gate of   *)
(* volumesnapshotclass.yaml and the kube-cloud-config mirror.              *)
(*                                                                         *)
(* Optional values (a Go pointer, a lister's result) are sequences of      *)
(* length 0 or 1; a Go error is a string, "" being nil.                    *)
(***************************************************************************)
EXTENDS Integers, Sequences, FiniteSets, TLC

VARIABLES
    isHypershift,      \* guestKubeConfigString != "", resolved in RunOperator
    base,              \* the deployment read from the controller.yaml asset
    nodes,             \* number of control-plane nodes the guest node lister sees
    infra,             \* the guest Infrastructure lister's "cluster" object, if any
    configMaps,        \* ConfigMaps of the management cluster, by <<namespace, name>>
    cloudConfigSynced, \* controlPlaneCloudConfigInformers started and synced
    applied,           \* the deployment last applied by the deployment controller
    ran,               \* the hooks the last tick ran: <<[hook, in, out, err, fault]>>
    lastErr,           \* the error of the last deployment tick
    crdExists,         \* the volumesnapshotclasses CRD exists in the guest cluster
    gate,              \* the last tick of the conditional resource gate: [decision, probeErr]
    snapshotClass,     \* volumesnapshotclass.yaml is installed in the guest cluster
    srcEverExisted,    \* the mirror's source ConfigMap has existed at some time
    lastSync,          \* the last mirror sync pass: [done, sourceFound, deleted, err]
    op                 \* RunOperator's activation: [pc, returned, ret, failed, started, ctxDone]

vars == <<isHypershift, base, nodes, infra, configMaps, cloudConfigSynced,
          applied, ran, lastErr, crdExists, gate, snapshotClass,
          srcEverExisted, lastSync, op>>

(***************************************************************************)
(* Bounds of the inputs.                                                   *)
(***************************************************************************)
MaxContainers == 2
MaxVolumes == 2
MaxTags == 2
MaxEndpoints == 2
MaxNodes == 2

(***************************************************************************)
(* Constants of starter.go.                                                *)
(***************************************************************************)
defaultNamespace == "openshift-cluster-csi-drivers"
hypershiftPriorityClass == "hypershift-control-plane"
cloudConfigNamespace == "openshift-config-managed"
cloudConfigName == "kube-cloud-config"
caBundleKey == "ca-bundle.pem"
hypershiftImage == "hypershift-image"
hostedNamespace == "clusters-hosted"

ErrNotFound == "not found"
ErrInternal == "internal error"

\* controllerConfig.OperatorNamespace
controlPlaneNamespace == IF isHypershift THEN hostedNamespace ELSE defaultNamespace

(***************************************************************************)
(* Sequence helpers.                                                       *)
(***************************************************************************)
SeqsUpTo(S, n) == UNION {[1..k -> S] : k \in 0..n}

RECURSIVE Join(_, _)
Join(parts, sep) ==
    IF parts = <<>> THEN ""
    ELSE IF Len(parts) = 1 THEN parts[1]
    ELSE parts[1] \o sep \o Join(Tail(parts), sep)

Indexes(s, P(_)) == {i \in 1..Len(s) : P(s[i])}

MapSeq(s, F(_)) == [i \in 1..Len(s) |-> F(s[i])]

Min(S) == CHOOSE x \in S : \A y \in S : x <= y

(***************************************************************************)
(* Data: containers, volumes, deployments.                                 *)
(***************************************************************************)
EnvVar(name, value) == [Name |-> name, Value |-> value]
VolumeMount(name, path, ro) == [Name |-> name, MountPath |-> path, ReadOnly |-> ro]
Volume(name, source) == [Name |-> name, VolumeSource |-> source]

ConfigMapSource(name) == [Kind |-> "ConfigMap", Ref |-> name, Medium |-> ""]
SecretSource(name) == [Kind |-> "Secret", Ref |-> name, Medium |-> ""]
EmptyDirSource(medium) == [Kind |-> "EmptyDir", Ref |-> "", Medium |-> medium]
ProjectedSource == [Kind |-> "Projected", Ref |-> "", Medium |-> ""]

Container(name, args, env, mounts) ==
    [Name |-> name, Image |-> name \o "-image", ImagePullPolicy |-> "",
     Command |-> <<>>, Args |-> args, Env |-> env, VolumeMounts |-> mounts,
     Requests |-> <<>>]

Deployment(containers, volumes, replicas) ==
    [Namespace |-> "${NAMESPACE}", Replicas |-> replicas, PriorityClassName |-> "",
     Annotations |-> <<>>, Volumes |-> volumes, Containers |-> containers]

HookResult(d, err) == [dep |-> d, err |-> err]

(***************************************************************************)
(* Listers: reads of the informer caches.                                  *)
(***************************************************************************)
ConfigMap(ns, name, data) == [Namespace |-> ns, Name |-> name, Data |-> data]

\* corev1listers.ConfigMapNamespaceLister.Get
GetConfigMap(lister, name) ==
    IF lister.fault THEN [obj |-> <<>>, err |-> ErrInternal]
    ELSE IF name \in DOMAIN lister.cache /\ lister.cache[name] # <<>>
    THEN [obj |-> lister.cache[name], err |-> ""]
    ELSE [obj |-> <<>>, err |-> ErrNotFound]

IsNotFound(err) == err = ErrNotFound

\* v1.InfrastructureLister.Get(infrastructureName)
GetInfrastructure(infraLister) ==
    IF infraLister = <<>> THEN [obj |-> <<>>, err |-> ErrNotFound]
    ELSE [obj |-> infraLister, err |-> ""]

Infrastructure(platformStatus) == [PlatformStatus |-> platformStatus]
PlatformStatus(aws) == [AWS |-> aws]
AWSPlatformStatus(region, tags, endpoints) ==
    [Region |-> region, ResourceTags |-> tags, ServiceEndpoints |-> endpoints]

\* infra.Status.PlatformStatus == nil || infra.Status.PlatformStatus.AWS == nil
NoAWS(i) == i.PlatformStatus = <<>> \/ i.PlatformStatus[1].AWS = <<>>
AWSOf(i) == i.PlatformStatus[1].AWS[1]

IsCSIDriver(c) == c.Name = "csi-driver"

(***************************************************************************)
(* The deployment hooks of starter.go. A hook mutates the deployment in    *)
(* place and returns an error: the result holds both.                      *)
(***************************************************************************)

\* customAWSCABundle without its check of the key
customAWSCABundleAnyData(isH, cloudConfigLister) ==
    LET configName == IF isH THEN "user-ca-bundle" ELSE cloudConfigName
        got == GetConfigMap(cloudConfigLister, configName)
    IN  IF IsNotFound(got.err) THEN [name |-> "", err |-> ""]
        ELSE IF got.err # ""
        THEN [name |-> "",
              err |-> "failed to get the " \o configName \o " ConfigMap: " \o got.err]
        ELSE [name |-> configName, err |-> ""]

\* customAWSCABundle: the name of the ConfigMap holding a custom CA bundle, or ""
customAWSCABundle(isH, cloudConfigLister) ==
    LET configName == IF isH THEN "user-ca-bundle" ELSE cloudConfigName
        got == GetConfigMap(cloudConfigLister, configName)
    IN  IF IsNotFound(got.err) THEN [name |-> "", err |-> ""]
        ELSE IF got.err # ""
        THEN [name |-> "",
              err |-> "failed to get the " \o configName \o " ConfigMap: " \o got.err]
        ELSE IF caBundleKey \notin DOMAIN got.obj[1].Data THEN [name |-> "", err |-> ""]
        ELSE [name |-> configName, err |-> ""]

\* withCustomAWSCABundle returning nil after its loop over the containers
withCustomAWSCABundleSwallow(isH, cloudConfigLister, d) ==
    LET found == customAWSCABundle(isH, cloudConfigLister) IN
    IF found.err # ""
    THEN HookResult(d, "could not determine if a custom CA bundle is in use: " \o found.err)
    ELSE IF found.name = "" THEN HookResult(d, "")
    ELSE
      LET withVolume == [d EXCEPT !.Volumes =
                             Append(@, Volume("ca-bundle", ConfigMapSource(found.name)))]
          idx == Indexes(d.Containers, IsCSIDriver)
      IN  IF idx = {} THEN HookResult(withVolume, "")
          ELSE LET i == Min(idx) IN
               HookResult(
                 [withVolume EXCEPT
                    !.Containers[i].Env =
                        Append(@, EnvVar("AWS_CA_BUNDLE", "/etc/ca/ca-bundle.pem")),
                    !.Containers[i].VolumeMounts =
                        Append(@, VolumeMount("ca-bundle", "/etc/ca", TRUE))],
                 "")

withCustomAWSCABundle(isH, cloudConfigLister, d) ==
    LET found == customAWSCABundle(isH, cloudConfigLister) IN
    IF found.err # ""
    THEN HookResult(d, "could not determine if a custom CA bundle is in use: " \o found.err)
    ELSE IF found.name = "" THEN HookResult(d, "")
    ELSE
      LET withVolume == [d EXCEPT !.Volumes =
                             Append(@, Volume("ca-bundle", ConfigMapSource(found.name)))]
          idx == Indexes(d.Containers, IsCSIDriver)
      IN  IF idx = {}
          THEN HookResult(withVolume,
                 "could not use custom CA bundle because the csi-driver container is missing from the deployment")
          ELSE LET i == Min(idx) IN
               HookResult(
                 [withVolume EXCEPT
                    !.Containers[i].Env =
                        Append(@, EnvVar("AWS_CA_BUNDLE", "/etc/ca/ca-bundle.pem")),
                    !.Containers[i].VolumeMounts =
                        Append(@, VolumeMount("ca-bundle", "/etc/ca", TRUE))],
                 "")

\* the loop of withCustomEndPoint over the service endpoints: the last "ec2" wins
\* the URL of the first service endpoint named ec2
ec2EndPointFirst(serviceEndPoints, acc) ==
    LET ec2 == {i \in 1..Len(serviceEndPoints) : serviceEndPoints[i].Name = "ec2"}
    IN  IF ec2 = {} THEN acc ELSE serviceEndPoints[Min(ec2)].URL

RECURSIVE ec2EndPoint(_, _)
ec2EndPoint(serviceEndPoints, acc) ==
    IF serviceEndPoints = <<>> THEN acc
    ELSE ec2EndPoint(Tail(serviceEndPoints),
                     IF Head(serviceEndPoints).Name = "ec2"
                     THEN Head(serviceEndPoints).URL ELSE acc)

withCustomEndPoint(infraLister, d) ==
    LET got == GetInfrastructure(infraLister) IN
    IF got.err # "" THEN HookResult(d, got.err)
    ELSE IF NoAWS(got.obj[1]) THEN HookResult(d, "")
    ELSE
      LET url == ec2EndPoint(AWSOf(got.obj[1]).ServiceEndpoints, "")
          idx == Indexes(d.Containers, IsCSIDriver)
      IN  IF url = "" THEN HookResult(d, "")
          ELSE IF idx = {} THEN HookResult(d, "")
          ELSE HookResult(
                 [d EXCEPT !.Containers[Min(idx)].Env =
                               Append(@, EnvVar("AWS_EC2_ENDPOINT", url))],
                 "")

\* fmt.Sprintf("%s=%s", userTag.Key, userTag.Value)
tagPair(userTag) == userTag.Key \o "=" \o userTag.Value

\* the tags joined last to first
tagsArgumentReversed(userTags) ==
    "--extra-tags=" \o
    Join([i \in 1..Len(userTags) |-> tagPair(userTags[Len(userTags) + 1 - i])], ",")

\* --extra-tags=<key1>=<value1>,<key2>=<value2>,...
tagsArgument(userTags) == "--extra-tags=" \o Join(MapSeq(userTags, tagPair), ",")

\* withCustomTags taking a failed read of the infrastructure for "no tags"
withCustomTagsIgnoreErr(infraLister, d) ==
    LET got == GetInfrastructure(infraLister) IN
    IF got.err # "" THEN HookResult(d, "")
    ELSE IF NoAWS(got.obj[1]) THEN HookResult(d, "")
    ELSE
      LET userTags == AWSOf(got.obj[1]).ResourceTags
          addTags(c) == IF ~IsCSIDriver(c) THEN c
                        ELSE [c EXCEPT !.Args = Append(@, "--extra-tags=" \o
                                  Join(MapSeq(userTags, LAMBDA t : t.Key \o "=" \o t.Value), ","))]
      IN  IF Len(userTags) = 0 THEN HookResult(d, "")
          ELSE HookResult([d EXCEPT !.Containers = MapSeq(d.Containers, addTags)], "")

withCustomTags(infraLister, d) ==
    LET got == GetInfrastructure(infraLister) IN
    IF got.err # "" THEN HookResult(d, got.err)
    ELSE IF NoAWS(got.obj[1]) THEN HookResult(d, "")
    ELSE
      LET userTags == AWSOf(got.obj[1]).ResourceTags
          addTags(c) == IF ~IsCSIDriver(c) THEN c
                        ELSE [c EXCEPT !.Args = Append(@, tagsArgument(userTags))]
      IN  IF Len(userTags) = 0 THEN HookResult(d, "")
          ELSE HookResult([d EXCEPT !.Containers = MapSeq(d.Containers, addTags)], "")

withAWSRegion(infraLister, d) ==
    LET got == GetInfrastructure(infraLister) IN
    IF got.err # "" THEN HookResult(d, got.err)
    ELSE IF NoAWS(got.obj[1]) THEN HookResult(d, "")
    ELSE
      LET region == AWSOf(got.obj[1]).Region
          addRegion(c) == IF ~IsCSIDriver(c) THEN c
                          ELSE [c EXCEPT !.Env = Append(@, EnvVar("AWS_REGION", region))]
      IN  IF region = "" THEN HookResult(d, "")
          ELSE HookResult([d EXCEPT !.Containers = MapSeq(d.Containers, addRegion)], "")

\* a namespace hook that remembers it has run: it acts in the first tick only
withNamespaceDeploymentHookOnce(namespace, d) ==
    IF applied # <<>> THEN HookResult(d, "")
    ELSE HookResult([d EXCEPT !.Namespace = namespace], "")

withNamespaceDeploymentHook(namespace, d) ==
    HookResult([d EXCEPT !.Namespace = namespace], "")

\* csidrivercontrollerservicecontroller.WithReplicasHook: by the node count
WithReplicasHook(guestNodeLister, d) ==
    HookResult([d EXCEPT !.Replicas = IF guestNodeLister > 1 THEN 2 ELSE 1], "")

\* a replicas hook that follows the node count under either topology
withHypershiftReplicasHookByNodes(isH, guestNodeLister, d) ==
    WithReplicasHook(guestNodeLister, d)

withHypershiftReplicasHook(isH, guestNodeLister, d) ==
    IF ~isH THEN WithReplicasHook(guestNodeLister, d)
    ELSE HookResult([d EXCEPT !.Replicas = 1], "")

RBACProxies == {"driver-kube-rbac-proxy", "provisioner-kube-rbac-proxy",
                "attacher-kube-rbac-proxy", "resizer-kube-rbac-proxy",
                "snapshotter-kube-rbac-proxy"}
CSISidecars == {"csi-provisioner", "csi-attacher", "csi-snapshotter", "csi-resizer"}

RemoveAt(s, i) == SubSeq(s, 1, i - 1) \o SubSeq(s, i + 1, Len(s))

\* the token minter sidecar appended by withHypershiftDeploymentHook
tokenMinter(image) ==
    [Name |-> "token-minter", Image |-> image, ImagePullPolicy |-> "IfNotPresent",
     Command |-> <<"/usr/bin/control-plane-operator", "token-minter">>,
     Args |-> <<"--service-account-namespace=openshift-cluster-csi-drivers",
                "--service-account-name=aws-ebs-csi-driver-controller-sa",
                "--token-audience=openshift",
                "--token-file=/var/run/secrets/openshift/serviceaccount/token",
                "--kubeconfig=/etc/hosted-kubernetes/kubeconfig">>,
     Env |-> <<>>,
     VolumeMounts |-> <<VolumeMount("bound-sa-token",
                                    "/var/run/secrets/openshift/serviceaccount", FALSE),
                        VolumeMount("hosted-kubeconfig", "/etc/hosted-kubernetes", TRUE)>>,
     Requests |-> <<"cpu=10m", "memory=10Mi">>]

\* hypershiftVolumes removing every metrics-serving-cert volume
hypershiftVolumesRemoveAll(volumes) ==
    LET added == Append(volumes, Volume("hosted-kubeconfig", SecretSource("admin-kubeconfig")))
        emptied(v) == IF v.Name # "bound-sa-token" THEN v
                      ELSE [v EXCEPT !.VolumeSource = EmptyDirSource("Memory")]
        notCert(v) == v.Name # "metrics-serving-cert"
    IN  SelectSeq(MapSeq(added, emptied), notCert)

\* hypershiftVolumes without the hosted-kubeconfig volume
hypershiftVolumesNoKubeconfig(volumes) ==
    LET emptied(v) == IF v.Name # "bound-sa-token" THEN v
                      ELSE [v EXCEPT !.VolumeSource = EmptyDirSource("Memory")]
        tokens == MapSeq(volumes, emptied)
        isCert(v) == v.Name = "metrics-serving-cert"
        certs == Indexes(tokens, isCert)
    IN  IF certs = {} THEN tokens ELSE RemoveAt(tokens, Min(certs))

\* the volumes of withHypershiftDeploymentHook
hypershiftVolumes(volumes) ==
    LET added == Append(volumes, Volume("hosted-kubeconfig", SecretSource("admin-kubeconfig")))
        emptied(v) == IF v.Name # "bound-sa-token" THEN v
                      ELSE [v EXCEPT !.VolumeSource = EmptyDirSource("Memory")]
        tokens == MapSeq(added, emptied)
        isCert(v) == v.Name = "metrics-serving-cert"
        certs == Indexes(tokens, isCert)
    IN  IF certs = {} THEN tokens ELSE RemoveAt(tokens, Min(certs))

\* hypershiftContainers with one case of the switch missing
hypershiftContainersKeepProxy(containers, image) ==
    LET kept(c) == c.Name \notin (RBACProxies \ {"snapshotter-kube-rbac-proxy"})
        filtered == SelectSeq(containers, kept)
        inject(c) ==
            IF c.Name \notin CSISidecars THEN c
            ELSE [c EXCEPT
                    !.Args = Append(@, "--kubeconfig=$(KUBECONFIG)"),
                    !.Env = Append(@, EnvVar("KUBECONFIG", "/etc/hosted-kubernetes/kubeconfig")),
                    !.VolumeMounts =
                        Append(@, VolumeMount("hosted-kubeconfig", "/etc/hosted-kubernetes", TRUE))]
    IN  Append(MapSeq(filtered, inject), tokenMinter(image))

\* hypershiftContainers adding only what the deployment does not have yet
hypershiftContainersOnce(containers, image) ==
    LET kept(c) == c.Name \notin RBACProxies
        filtered == SelectSeq(containers, kept)
        isMinter(c) == c.Name = "token-minter"
        inject(c) ==
            IF c.Name \notin CSISidecars
               \/ \E i \in 1..Len(c.Env) : c.Env[i].Name = "KUBECONFIG"
            THEN c
            ELSE [c EXCEPT
                    !.Args = Append(@, "--kubeconfig=$(KUBECONFIG)"),
                    !.Env = Append(@, EnvVar("KUBECONFIG", "/etc/hosted-kubernetes/kubeconfig")),
                    !.VolumeMounts =
                        Append(@, VolumeMount("hosted-kubeconfig", "/etc/hosted-kubernetes", TRUE))]
    IN  IF Indexes(filtered, isMinter) # {} THEN MapSeq(filtered, inject)
        ELSE Append(MapSeq(filtered, inject), tokenMinter(image))

\* the containers of withHypershiftDeploymentHook
hypershiftContainers(containers, image) ==
    LET kept(c) == c.Name \notin RBACProxies
        filtered == SelectSeq(containers, kept)
        inject(c) ==
            IF c.Name \notin CSISidecars THEN c
            ELSE [c EXCEPT
                    !.Args = Append(@, "--kubeconfig=$(KUBECONFIG)"),
                    !.Env = Append(@, EnvVar("KUBECONFIG", "/etc/hosted-kubernetes/kubeconfig")),
                    !.VolumeMounts =
                        Append(@, VolumeMount("hosted-kubeconfig", "/etc/hosted-kubernetes", TRUE))]
    IN  Append(MapSeq(filtered, inject), tokenMinter(image))

\* withHypershiftDeploymentHook setting the priority class before its check of
\* the topology
withHypershiftDeploymentHookPriority(isH, image, d) ==
    IF ~isH THEN HookResult([d EXCEPT !.PriorityClassName = hypershiftPriorityClass], "")
    ELSE HookResult(
           [d EXCEPT !.PriorityClassName = hypershiftPriorityClass,
                     !.Volumes = hypershiftVolumes(d.Volumes),
                     !.Containers = hypershiftContainers(d.Containers, image)],
           "")

\* withHypershiftDeploymentHook without its check of the topology
withHypershiftDeploymentHookAlways(isH, image, d) ==
    HookResult(
      [d EXCEPT !.PriorityClassName = hypershiftPriorityClass,
                !.Volumes = hypershiftVolumes(d.Volumes),
                !.Containers = hypershiftContainers(d.Containers, image)],
      "")

withHypershiftDeploymentHook(isH, image, d) ==
    IF ~isH THEN HookResult(d, "")
    ELSE HookResult(
           [d EXCEPT !.PriorityClassName = hypershiftPriorityClass,
                     !.Volumes = hypershiftVolumes(d.Volumes),
                     !.Containers = hypershiftContainers(d.Containers, image)],
           "")

\* csidrivercontrollerservicecontroller.WithSecretHashAnnotationHook
\* (Annotations is a map: setting a key twice leaves one entry)
WithSecretHashAnnotationHook(d) ==
    LET key == "operator.openshift.io/dep-secret-hash"
        present == \E i \in 1..Len(d.Annotations) : d.Annotations[i] = key
    IN  HookResult([d EXCEPT !.Annotations = IF present THEN @ ELSE Append(@, key)], "")

\* csidrivercontrollerservicecontroller.WithObservedProxyDeploymentHook, no proxy observed
WithObservedProxyDeploymentHook(d) == HookResult(d, "")

\* csidrivercontrollerservicecontroller.WithCABundleDeploymentHook, no trusted CA bundle
WithCABundleDeploymentHook(d) == HookResult(d, "")

(***************************************************************************)
(* RunOperator: the wiring of the controllers.                             *)
(***************************************************************************)

\* newCustomAWSBundleSyncer: the locations of the mirrored ConfigMap
srcConfigMap == <<cloudConfigNamespace, cloudConfigName>>
dstConfigMap(destinationNamespace) == <<destinationNamespace, cloudConfigName>>
userCABundle == <<controlPlaneNamespace, "user-ca-bundle">>

\* resourcesynccontroller.SyncConfigMap(destination, source): a sync rule
SyncConfigMap(destination, source) == [destination |-> destination, source |-> source]

\* the arguments of SyncConfigMap exchanged
caSyncRuleSwapped == SyncConfigMap(srcConfigMap, dstConfigMap(controlPlaneNamespace))

\* certController.SyncConfigMap(dstConfigMap, srcConfigMap)
caSyncRule == SyncConfigMap(dstConfigMap(controlPlaneNamespace), srcConfigMap)

Locations == {srcConfigMap, dstConfigMap(controlPlaneNamespace), userCABundle}

\* controlPlaneCloudConfigLister: the ConfigMaps of controlPlaneNamespace, as
\* far as the informer (started only when !isHypershift) has cached them
controlPlaneCloudConfigLister(fault) ==
    [fault |-> fault,
     cache |-> [n \in IF cloudConfigSynced THEN {cloudConfigName, "user-ca-bundle"} ELSE {}
                  |-> configMaps[<<controlPlaneNamespace, n>>]]]

\* a statement of RunOperator: a constructor call whose error is returned, or a
\* go statement
New(name) == [kind |-> "new", name |-> name]
Go(name) == [kind |-> "go", name |-> name]

\* the standalone block with the informers started before the syncer is built
standaloneStatementsEagerInformers(isH) ==
    IF ~isH
    THEN <<Go("controlPlaneCloudConfigInformers"), New("caSyncController"),
           Go("caSyncController"), Go("staticResourcesController"),
           Go("serviceMonitorController")>>
    ELSE <<>>

\* the standalone block executed under either topology
standaloneStatementsAlways(isH) ==
    <<New("caSyncController"), Go("controlPlaneCloudConfigInformers"),
      Go("caSyncController"), Go("staticResourcesController"),
      Go("serviceMonitorController")>>

\* the block under if !isHypershift: the custom CA bundle syncer and informers
\* and the two static resource controllers
standaloneStatements(isH) ==
    IF ~isH
    THEN <<New("caSyncController"), Go("controlPlaneCloudConfigInformers"),
           Go("caSyncController"), Go("staticResourcesController"),
           Go("serviceMonitorController")>>
    ELSE <<>>

\* the statements of RunOperator that return an error or start a goroutine, in
\* order, up to <-ctx.Done()
runOperatorBody(isH) ==
    <<New("controlPlaneDynamicClient")>>
    \o (IF isH THEN <<New("guestKubeConfig")>> ELSE <<>>)
    \o <<New("guestAPIExtClient"), New("guestDynamicClient"), New("guestOperatorClient")>>
    \o standaloneStatements(isH)
    \o <<Go("controlPlaneKubeInformersForNamespaces"), Go("controlPlaneCSIControllerSet"),
         Go("guestKubeInformersForNamespaces"), Go("guestDynamicInformers"),
         Go("guestConfigInformers"), Go("guestCSIControllerSet")>>

\* the informers whose events trigger the controller deployment loop
controlPlaneInformersForEvents(isH) ==
    {"controlPlaneSecretInformer", "controlPlaneConfigMapInformer", "guestNodeInformer",
     "guestInfraInformer"}
    \cup (IF ~isH THEN {"controlPlaneCloudConfigInformer"} ELSE {})

\* the error a failing constructor returns
constructErr(name) == name \o ": construction failed"

\* what RunOperator returns when a constructor fails
returnedErr(name, err) ==
    IF name = "caSyncController"
    THEN "could not create the custom CA bundle syncer: " \o err
    ELSE err

\* a RunOperator that reports a clean shutdown
stoppedNil == ""

\* fmt.Errorf("stopped")
stoppedErr == "stopped"

\* a goroutine that gives up when a tick of either controller set has failed
RunningWhileHealthy(name) ==
    name \in op.started /\ ~op.ctxDone /\ lastErr = "" /\ gate.probeErr = ""

\* a goroutine started with a go statement runs until ctx is done
Running(name) == name \in op.started /\ ~op.ctxDone

\* RunOperator waiting at <-ctx.Done() with everything started
Serving(isH) ==
    LET body == runOperatorBody(isH) IN
    [pc |-> Len(body) + 1, returned |-> FALSE, ret |-> "", failed |-> "",
     started |-> {body[i].name : i \in {j \in 1..Len(body) : body[j].kind = "go"}},
     ctxDone |-> FALSE]

\* the hooks with the hosted deployment hook moved behind the CA-bundle hook
controllerHooksHostedLate ==
    <<"withHypershiftReplicasHook", "withNamespaceDeploymentHook",
      "WithSecretHashAnnotationHook", "WithObservedProxyDeploymentHook",
      "withCustomAWSCABundle", "withHypershiftDeploymentHook", "withAWSRegion",
      "withCustomTags", "withCustomEndPoint", "WithCABundleDeploymentHook">>

\* the hooks handed to WithCSIDriverControllerService, in order
controllerHooks ==
    <<"withHypershiftDeploymentHook", "withHypershiftReplicasHook",
      "withNamespaceDeploymentHook", "WithSecretHashAnnotationHook",
      "WithObservedProxyDeploymentHook", "withCustomAWSCABundle", "withAWSRegion",
      "withCustomTags", "withCustomEndPoint", "WithCABundleDeploymentHook">>

\* one hook of RunOperator's list, with the arguments RunOperator binds
ApplyHook(h, d, fault) ==
    CASE h = "withHypershiftDeploymentHook" ->
            withHypershiftDeploymentHook(isHypershift, hypershiftImage, d)
      [] h = "withHypershiftReplicasHook" ->
            withHypershiftReplicasHook(isHypershift, nodes, d)
      [] h = "withNamespaceDeploymentHook" ->
            withNamespaceDeploymentHook(controlPlaneNamespace, d)
      [] h = "WithSecretHashAnnotationHook" -> WithSecretHashAnnotationHook(d)
      [] h = "WithObservedProxyDeploymentHook" -> WithObservedProxyDeploymentHook(d)
      [] h = "withCustomAWSCABundle" ->
            withCustomAWSCABundle(isHypershift, controlPlaneCloudConfigLister(fault), d)
      [] h = "withAWSRegion" -> withAWSRegion(infra, d)
      [] h = "withCustomTags" -> withCustomTags(infra, d)
      [] h = "withCustomEndPoint" -> withCustomEndPoint(infra, d)
      [] h = "WithCABundleDeploymentHook" -> WithCABundleDeploymentHook(d)

\* the deployment controller's loop over its hooks: stops at the first error
RECURSIVE RunHooks(_, _, _, _, _)
RunHooks(hooks, i, d, fault, acc) ==
    IF i > Len(hooks) THEN [dep |-> d, err |-> "", ran |-> acc]
    ELSE LET after(r) ==
               LET step == [hook |-> hooks[i], in |-> d, out |-> r.dep, err |-> r.err,
                            fault |-> fault]
               IN  IF r.err # ""
                   THEN [dep |-> r.dep, err |-> r.err, ran |-> Append(acc, step)]
                   ELSE RunHooks(hooks, i + 1, r.dep, fault, Append(acc, step))
         IN  \* the hook is called once: its result is a value, not an expression
             CHOOSE res \in {after(r) : r \in {ApplyHook(hooks[i], d, fault)}} : TRUE

\* an install predicate that takes every error but NotFound for existence
installUnlessNotFound(getErr) == ~IsNotFound(getErr)

\* the install predicate of volumesnapshotclass.yaml: the CRD lookup returned no error
installPredicate(getErr) == getErr = ""

\* a delete predicate that follows the CRD
deleteWhenCRDGone == ~crdExists

\* the delete predicate of volumesnapshotclass.yaml
deletePredicate == FALSE

\* the conditional static resources controller's decision
GateEvaluate(install, delete) ==
    IF delete THEN "Remove" ELSE IF install THEN "Install" ELSE "NoOp"

\* guestAPIExtClient...CustomResourceDefinitions().Get
GetCRD(fault) == IF fault THEN ErrInternal ELSE IF ~crdExists THEN ErrNotFound ELSE ""

(***************************************************************************)
(* Inputs.                                                                 *)
(***************************************************************************)
NoData == "config" :> "cfg"
CAData == ("config" :> "cfg") @@ (caBundleKey :> "PEM")
OtherCAData == ("config" :> "cfg") @@ (caBundleKey :> "PEM2")

Tag(k, v) == [Key |-> k, Value |-> v]
Endpoint(n, u) == [Name |-> n, URL |-> u]

TagValues == {Tag("owner", "alice"), Tag("env", "prod")}
EndpointValues == {Endpoint("ec2", "https://ec2.local"), Endpoint("ec2", ""),
                   Endpoint("ec2", "https://ec2.other"), Endpoint("s3", "https://s3.local")}
Regions == {"", "us-east-1"}

AWSInfra(region, tags, endpoints) ==
    <<Infrastructure(<<PlatformStatus(<<AWSPlatformStatus(region, tags, endpoints)>>)>>)>>

TypicalInfra ==
    AWSInfra("us-east-1", <<Tag("owner", "alice"), Tag("env", "prod")>>,
             <<Endpoint("ec2", "https://ec2.local")>>)

\* the infrastructure objects of the system specification
SysInfras == {<<>>, AWSInfra("", <<>>, <<>>), TypicalInfra}

\* the infrastructure objects of the hook inputs: the tags and the service
\* endpoints are varied one at a time
AllInfras ==
    {<<Infrastructure(<<>>)>>, <<Infrastructure(<<PlatformStatus(<<>>)>>)>>}
    \cup SysInfras
    \cup {AWSInfra(r, t, <<Endpoint("ec2", "https://ec2.local")>>) :
            r \in Regions, t \in SeqsUpTo(TagValues, MaxTags)}
    \cup {AWSInfra(r, <<Tag("owner", "alice")>>, e) :
            r \in Regions, e \in SeqsUpTo(EndpointValues, MaxEndpoints)}

BaseContainer(name) ==
    Container(name, <<"--v=2">>, <<EnvVar("POD_NAME", name)>>,
              <<VolumeMount("socket-dir", "/var/lib/csi/sockets/pluginproxy/", FALSE)>>)

BaseVolume(name) ==
    Volume(name, CASE name = "bound-sa-token" -> ProjectedSource
                   [] name = "metrics-serving-cert" -> SecretSource("controller-metrics")
                   [] OTHER -> EmptyDirSource(""))

ContainerNames == RBACProxies \cup CSISidecars \cup {"csi-driver", "csi-liveness-probe"}
VolumeNames == {"bound-sa-token", "metrics-serving-cert", "socket-dir"}

TypicalContainers ==
    MapSeq(<<"csi-driver", "driver-kube-rbac-proxy", "csi-provisioner",
             "provisioner-kube-rbac-proxy", "csi-liveness-probe">>, BaseContainer)
TypicalVolumes ==
    MapSeq(<<"socket-dir", "bound-sa-token", "metrics-serving-cert">>, BaseVolume)

TypicalBase == Deployment(TypicalContainers, TypicalVolumes, 1)
\* a template that lost its driver container
DriverlessBase == Deployment(Tail(TypicalContainers), TypicalVolumes, 1)

SysBases == {TypicalBase, DriverlessBase}

TwoDriverBase ==
    Deployment(<<BaseContainer("csi-liveness-probe"), BaseContainer("csi-driver"),
                 BaseContainer("csi-driver")>>, TypicalVolumes, 1)

ConfigMapValues(loc) ==
    {<<>>, <<ConfigMap(loc[1], loc[2], NoData)>>, <<ConfigMap(loc[1], loc[2], CAData)>>}

\* the inputs of the hook pipeline, one aspect varied at a time
ContainerInputs ==
    {[base |-> Deployment(MapSeq(names, BaseContainer), TypicalVolumes, 1),
      infra |-> TypicalInfra, nodes |-> 1, data |-> <<CAData>>, synced |-> TRUE] :
        names \in SeqsUpTo(ContainerNames, MaxContainers)}
VolumeInputs ==
    {[base |-> Deployment(TypicalContainers, MapSeq(names, BaseVolume), r),
      infra |-> TypicalInfra, nodes |-> n, data |-> <<>>, synced |-> TRUE] :
        names \in SeqsUpTo(VolumeNames, MaxVolumes), r \in {0, 3}, n \in 0..MaxNodes}
ClusterInputs ==
    {[base |-> b, infra |-> i, nodes |-> 1, data |-> c[1], synced |-> c[2]] :
        b \in {TypicalBase, DriverlessBase, TwoDriverBase}, i \in AllInfras,
        c \in {<< <<>>, TRUE>>, << <<NoData>>, TRUE>>, << <<CAData>>, TRUE>>,
               << <<CAData>>, FALSE>>}}
HookInputs == ContainerInputs \cup VolumeInputs \cup ClusterInputs

NoSync == [done |-> FALSE, sourceFound |-> FALSE, deleted |-> FALSE, err |-> ""]

(***************************************************************************)
(* The state machine.                                                      *)
(***************************************************************************)
Init ==
    /\ isHypershift \in BOOLEAN
    /\ base \in SysBases
    /\ nodes = 1
    /\ infra = <<>>
    /\ configMaps = [l \in Locations |-> <<>>]
    /\ cloudConfigSynced = FALSE
    /\ applied = <<>>
    /\ ran = <<>>
    /\ lastErr = ""
    /\ crdExists = FALSE
    /\ gate = [decision |-> "None", probeErr |-> ""]
    /\ snapshotClass = FALSE
    /\ srcEverExisted = FALSE
    /\ lastSync = NoSync
    /\ op = Serving(isHypershift)

\* the ConfigMap the CA-bundle hook looks up
hookConfigMap == IF isHypershift THEN userCABundle ELSE dstConfigMap(controlPlaneNamespace)

InitHooks ==
    /\ isHypershift \in BOOLEAN
    /\ \E input \in HookInputs :
         /\ base = input.base
         /\ nodes = input.nodes
         /\ infra = input.infra
         /\ configMaps =
              [l \in Locations |->
                 IF l = hookConfigMap /\ input.data # <<>>
                 THEN <<ConfigMap(l[1], l[2], input.data[1])>> ELSE <<>>]
         /\ cloudConfigSynced = (input.synced /\ ~isHypershift)
    /\ applied = <<>>
    /\ ran = <<>>
    /\ lastErr = ""
    /\ crdExists = FALSE
    /\ gate = [decision |-> "None", probeErr |-> ""]
    /\ snapshotClass = FALSE
    /\ srcEverExisted = FALSE
    /\ lastSync = NoSync
    /\ op = Serving(isHypershift)

\* one tick of AWSEBSDriverControllerServiceController: the hooks run on a
\* fresh copy of the asset, and the result is applied unless a hook failed
ControllerSync ==
    \E fault \in BOOLEAN :
      LET r == RunHooks(controllerHooks, 1, base, fault, <<>>) IN
      /\ Running("controlPlaneCSIControllerSet")
      /\ ran' = r.ran
      /\ lastErr' = r.err
      /\ applied' = IF r.err = "" THEN <<r.dep>> ELSE applied
      /\ UNCHANGED <<op, isHypershift, base, nodes, infra, configMaps, cloudConfigSynced,
                     crdExists, gate, snapshotClass, srcEverExisted, lastSync>>

\* one tick of AWSEBSDriverConditionalStaticResourcesController
GateSync ==
    \E fault \in BOOLEAN :
      LET probeErr == GetCRD(fault)
          decision == GateEvaluate(installPredicate(probeErr), deletePredicate)
      IN
      /\ Running("guestCSIControllerSet")
      /\ gate' = [decision |-> decision, probeErr |-> probeErr]
      /\ snapshotClass' = CASE decision = "Install" -> TRUE
                            [] decision = "Remove" -> FALSE
                            [] OTHER -> snapshotClass
      /\ UNCHANGED <<op, isHypershift, base, nodes, infra, configMaps, cloudConfigSynced,
                     applied, ran, lastErr, crdExists, srcEverExisted, lastSync>>

\* go controlPlaneCloudConfigInformers.Start(ctx.Done()), under !isHypershift
InformerSync ==
    /\ Running("controlPlaneCloudConfigInformers")
    /\ ~cloudConfigSynced
    /\ cloudConfigSynced' = TRUE
    /\ UNCHANGED <<op, isHypershift, base, nodes, infra, configMaps, applied, ran, lastErr,
                   crdExists, gate, snapshotClass, srcEverExisted, lastSync>>

\* one sync pass of the resource sync controller over its rule
MirrorSync ==
    /\ Running("caSyncController")
    /\ cloudConfigSynced
    /\ LET rule == caSyncRule
           source == configMaps[rule.source]
       IN  /\ configMaps' =
                [configMaps EXCEPT ![rule.destination] =
                   IF source = <<>> THEN <<>>
                   ELSE <<ConfigMap(rule.destination[1], rule.destination[2], source[1].Data)>>]
           /\ lastSync' = [done |-> TRUE, sourceFound |-> source # <<>>,
                           deleted |-> source = <<>> /\ configMaps[rule.destination] # <<>>,
                           err |-> ""]
    /\ UNCHANGED <<op, isHypershift, base, nodes, infra, cloudConfigSynced, applied, ran,
                   lastErr, crdExists, gate, snapshotClass, srcEverExisted>>

\* the ConfigMaps somebody else writes: the mirror's source and destination on a
\* standalone cluster, user-ca-bundle in a hosted control plane
EditableLocations ==
    IF isHypershift THEN {userCABundle}
    ELSE {srcConfigMap, dstConfigMap(controlPlaneNamespace)}

SetConfigMap ==
    \E loc \in EditableLocations : \E v \in ConfigMapValues(loc) :
      /\ v # configMaps[loc]
      /\ configMaps' = [configMaps EXCEPT ![loc] = v]
      /\ srcEverExisted' = (srcEverExisted \/ (loc = srcConfigMap /\ v # <<>>))
      /\ UNCHANGED <<op, isHypershift, base, nodes, infra, cloudConfigSynced, applied, ran,
                     lastErr, crdExists, gate, snapshotClass, lastSync>>

SetInfrastructure ==
    \E i \in SysInfras :
      /\ i # infra
      /\ infra' = i
      /\ UNCHANGED <<op, isHypershift, base, nodes, configMaps, cloudConfigSynced, applied,
                     ran, lastErr, crdExists, gate, snapshotClass,
                     srcEverExisted, lastSync>>

\* the hooks run on the deployment the tick before produced instead of a
\* fresh copy of the asset
RerunSync ==
    /\ Running("controlPlaneCSIControllerSet")
    /\ ran # <<>>
    /\ ran[1].in = base
    /\ lastErr = ""
    /\ applied # <<>>
    /\ LET r == RunHooks(controllerHooks, 1, applied[1], FALSE, <<>>) IN
       /\ ran' = r.ran
       /\ lastErr' = r.err
       /\ applied' = IF r.err = "" THEN <<r.dep>> ELSE applied
    /\ UNCHANGED <<op, isHypershift, base, nodes, infra, configMaps, cloudConfigSynced,
                   crdExists, gate, snapshotClass, srcEverExisted, lastSync>>

\* the volumesnapshotclasses CRD is installed or removed
SetCRD ==
    /\ crdExists' = ~crdExists
    /\ UNCHANGED <<op, isHypershift, base, nodes, infra, configMaps, cloudConfigSynced,
                   applied, ran, lastErr, gate, snapshotClass, srcEverExisted,
                   lastSync>>

Body == runOperatorBody(isHypershift)

\* the statement RunOperator is at
AtStatement(kind) == ~op.returned /\ op.pc <= Len(Body) /\ Body[op.pc].kind = kind

\* a constructor call and the check of its error
Construct ==
    /\ AtStatement("new")
    /\ \E ok \in BOOLEAN :
         LET name == Body[op.pc].name IN
         op' = IF ok THEN [op EXCEPT !.pc = @ + 1]
               ELSE [op EXCEPT !.returned = TRUE, !.failed = name,
                               !.ret = returnedErr(name, constructErr(name))]
    /\ UNCHANGED <<isHypershift, base, nodes, infra, configMaps, cloudConfigSynced,
                   applied, ran, lastErr, crdExists, gate, snapshotClass,
                   srcEverExisted, lastSync>>

\* a go statement
Start ==
    /\ AtStatement("go")
    /\ op' = [op EXCEPT !.pc = @ + 1, !.started = @ \cup {Body[op.pc].name}]
    /\ UNCHANGED <<isHypershift, base, nodes, infra, configMaps, cloudConfigSynced,
                   applied, ran, lastErr, crdExists, gate, snapshotClass,
                   srcEverExisted, lastSync>>

\* the root context is cancelled
Cancel ==
    /\ ~op.ctxDone
    /\ op' = [op EXCEPT !.ctxDone = TRUE]
    /\ UNCHANGED <<isHypershift, base, nodes, infra, configMaps, cloudConfigSynced,
                   applied, ran, lastErr, crdExists, gate, snapshotClass,
                   srcEverExisted, lastSync>>

\* <-ctx.Done() and the return that follows it
Return ==
    /\ ~op.returned
    /\ op.pc = Len(Body) + 1
    /\ op.ctxDone
    /\ op' = [op EXCEPT !.returned = TRUE, !.ret = stoppedErr]
    /\ UNCHANGED <<isHypershift, base, nodes, infra, configMaps, cloudConfigSynced,
                   applied, ran, lastErr, crdExists, gate, snapshotClass,
                   srcEverExisted, lastSync>>

Next ==
    \/ ControllerSync
    \/ GateSync
    \/ InformerSync
    \/ MirrorSync
    \/ SetConfigMap
    \/ SetInfrastructure
    \/ SetCRD

Spec == Init /\ [][Next]_vars

NextHooks == ControllerSync

\* the hooks starter.go defines
starterHooks ==
    {"withHypershiftDeploymentHook", "withHypershiftReplicasHook",
     "withNamespaceDeploymentHook", "withCustomAWSCABundle", "withAWSRegion",
     "withCustomTags", "withCustomEndPoint"}

\* one hook alone, called on the asset
HookCall ==
    \E h \in starterHooks : \E fault \in BOOLEAN :
      LET r == ApplyHook(h, base, fault) IN
      /\ fault => h = "withCustomAWSCABundle"
      /\ ran' = <<[hook |-> h, in |-> base, out |-> r.dep, err |-> r.err, fault |-> fault]>>
      /\ lastErr' = r.err
      /\ UNCHANGED <<op, isHypershift, base, nodes, infra, configMaps, cloudConfigSynced,
                     applied, crdExists, gate, snapshotClass, srcEverExisted, lastSync>>

NextHook == HookCall

SpecHook == InitHooks /\ [][NextHook]_vars

SpecHooks == InitHooks /\ [][NextHooks]_vars

\* the pipeline with runs on its own output
NextRerun ==
    \/ ControllerSync
    \/ RerunSync

SpecRerun == InitHooks /\ [][NextRerun]_vars

\* the deployment controller with the cluster state it reads
NextDeployment ==
    \/ ControllerSync
    \/ InformerSync
    \/ MirrorSync
    \/ SetConfigMap
    \/ SetInfrastructure

SpecDeployment == Init /\ [][NextDeployment]_vars

\* the conditional resource gate and the config mirror
NextResources ==
    \/ GateSync
    \/ SetCRD
    \/ InformerSync
    \/ MirrorSync
    \/ SetConfigMap

SpecResources == Init /\ [][NextResources]_vars

\* RunOperator from its first statement, with the two controller sets
InitOperator ==
    /\ isHypershift \in BOOLEAN
    /\ base \in SysBases
    /\ nodes = 1
    /\ infra \in {<<>>, TypicalInfra}
    /\ configMaps = [l \in Locations |-> <<>>]
    /\ cloudConfigSynced = FALSE
    /\ applied = <<>>
    /\ ran = <<>>
    /\ lastErr = ""
    /\ crdExists = FALSE
    /\ gate = [decision |-> "None", probeErr |-> ""]
    /\ snapshotClass = FALSE
    /\ srcEverExisted = FALSE
    /\ lastSync = NoSync
    /\ op = [pc |-> 1, returned |-> FALSE, ret |-> "", failed |-> "", started |-> {},
             ctxDone |-> FALSE]

NextOperator ==
    \/ Construct
    \/ Start
    \/ Cancel
    \/ Return
    \/ ControllerSync
    \/ GateSync
    \/ SetCRD
    \/ InformerSync
    \/ MirrorSync

SpecOperator == InitOperator /\ [][NextOperator]_vars

\* the statements of RunOperator are executed one after the other
FairSpecOperator ==
    SpecOperator /\ WF_vars(Construct) /\ WF_vars(Start) /\ WF_vars(Return)

\* a running controller set is synced again and again, and reads of the API
\* do not fail for ever
FairSpecLoops ==
    /\ FairSpecOperator
    /\ WF_vars(ControllerSync /\ ~ran'[1].fault)
    /\ WF_vars(GateSync /\ gate'.probeErr # ErrInternal)

(***************************************************************************)
(* Vocabulary of the properties.                                           *)
(***************************************************************************)
MissingContainerErr ==
    "could not use custom CA bundle because the csi-driver container is missing from the deployment"

HasContainer(d, name) == \E i \in 1..Len(d.Containers) : d.Containers[i].Name = name
HasVolume(d, name) == \E i \in 1..Len(d.Volumes) : d.Volumes[i].Name = name
HasEnv(c, name) == \E i \in 1..Len(c.Env) : c.Env[i].Name = name
HasMount(c, name) == \E i \in 1..Len(c.VolumeMounts) : c.VolumeMounts[i].Name = name

Steps(h) == {i \in 1..Len(ran) : ran[i].hook = h}

(***************************************************************************)
(* C1: a tick in which a hook returns an error runs no later hook and      *)
(* leaves the applied deployment as it was; in particular the deployment   *)
(* to which the CA-bundle hook added its 'ca-bundle' volume before failing *)
(* on a missing csi-driver container is never applied.                     *)
(***************************************************************************)
C1_NoLaterHook ==
    /\ \A i \in 1..Len(ran) : ran[i].err # "" => (i = Len(ran) /\ lastErr = ran[i].err)
    /\ lastErr # "" => (ran # <<>> /\ ran[Len(ran)].err = lastErr)

C1_NoPartialApply ==
    (applied # <<>> /\ HasVolume(applied[1], "ca-bundle")) =>
        HasContainer(applied[1], "csi-driver")

C1_FailFast ==
    /\ [](C1_NoLaterHook /\ C1_NoPartialApply)
    /\ [][lastErr' # "" => applied' = applied]_vars

C1_Witness ==
    /\ lastErr = MissingContainerErr
    /\ ran[Len(ran)].hook = "withCustomAWSCABundle"
    /\ HasVolume(ran[Len(ran)].out, "ca-bundle")
    /\ Len(ran) < Len(controllerHooks)
    /\ applied # <<>>
    /\ ~HasVolume(applied[1], "ca-bundle")

(***************************************************************************)
(* C4: the gate of volumesnapshotclass.yaml decides Install only when the  *)
(* lookup of the volumesnapshotclasses CRD succeeded: never when the       *)
(* lookup returned an error, and never in a tick in which the CRD is       *)
(* absent.                                                                 *)
(***************************************************************************)
C4_InstallOnlyOnProbe ==
    /\ [](gate.decision = "Install" => gate.probeErr = "")
    /\ [][GateSync /\ ~crdExists => gate'.decision # "Install"]_vars

C4_Witness ==
    /\ gate.decision = "NoOp"
    /\ gate.probeErr = ErrInternal
    /\ crdExists

(***************************************************************************)
(* C5: the gate never decides Remove, and volumesnapshotclass.yaml, once   *)
(* installed, stays installed whatever happens to the CRD.                 *)
(***************************************************************************)
C5_NeverRemove ==
    /\ [](gate.decision # "Remove")
    /\ [][snapshotClass => snapshotClass']_vars

C5_Witness ==
    /\ snapshotClass
    /\ ~crdExists
    /\ gate.decision = "NoOp"
    /\ gate.probeErr = ErrNotFound

(***************************************************************************)
(* C6: a sync pass of the mirror that finds no kube-cloud-config in        *)
(* openshift-config-managed leaves no kube-cloud-config in the operator    *)
(* namespace (it deletes the copy, and creates none when the source never  *)
(* existed) and reports no error.                                          *)
(***************************************************************************)
MirrorSource == <<"openshift-config-managed", "kube-cloud-config">>
MirrorDestination == <<"openshift-cluster-csi-drivers", "kube-cloud-config">>

C6_MirrorDeletes ==
    /\ [](lastSync.done /\ ~lastSync.sourceFound => lastSync.err = "")
    /\ [][MirrorSync =>
            /\ configMaps[MirrorSource] = <<>> =>
                 (configMaps'[MirrorDestination] = <<>> /\ lastSync'.err = "")
            /\ (~srcEverExisted /\ configMaps[MirrorDestination] = <<>>) =>
                 configMaps'[MirrorDestination] = <<>>]_vars

C6_Witness ==
    /\ srcEverExisted
    /\ lastSync.done /\ ~lastSync.sourceFound /\ lastSync.deleted
    /\ configMaps[MirrorSource] = <<>>
    /\ configMaps[MirrorDestination] = <<>>

(***************************************************************************)
(* What a hook finds in the caches, read off the cluster state.            *)
(***************************************************************************)
InfraHooks == {"withAWSRegion", "withCustomTags", "withCustomEndPoint"}

\* the hook's lister holds the ConfigMap the CA-bundle hook looks up
ListerFinds == cloudConfigSynced /\ configMaps[hookConfigMap] # <<>>
BundlePresent == ListerFinds /\ "ca-bundle.pem" \in DOMAIN configMaps[hookConfigMap][1].Data

HasAWS == infra # <<>> /\ infra[1].PlatformStatus # <<>> /\ infra[1].PlatformStatus[1].AWS # <<>>
TheRegion == infra[1].PlatformStatus[1].AWS[1].Region
TheTags == infra[1].PlatformStatus[1].AWS[1].ResourceTags
TheEndpoints == infra[1].PlatformStatus[1].AWS[1].ServiceEndpoints
EC2Indexes == {j \in 1..Len(TheEndpoints) : TheEndpoints[j].Name = "ec2"}
Max(S) == CHOOSE x \in S : \A y \in S : y <= x
TheEC2URL == IF EC2Indexes = {} THEN "" ELSE TheEndpoints[Max(EC2Indexes)].URL

\* the hook of step s has data to inject
Necessary(s) ==
    CASE s.hook = "withCustomAWSCABundle" -> ~s.fault /\ BundlePresent
      [] s.hook = "withAWSRegion" -> HasAWS /\ TheRegion # ""
      [] s.hook = "withCustomTags" -> HasAWS /\ Len(TheTags) > 0
      [] s.hook = "withCustomEndPoint" -> HasAWS /\ TheEC2URL # ""
      [] OTHER -> FALSE

\* the cache read of the hook of step s fails
ReadFails(s) ==
    \/ s.hook = "withCustomAWSCABundle" /\ (s.fault \/ ~ListerFinds)
    \/ s.hook \in InfraHooks /\ infra = <<>>

(***************************************************************************)
(* C2 as stated: a hook whose cache read fails leaves the deployment       *)
(* unchanged and returns no error.                                         *)
(***************************************************************************)
C2_Original ==
    \A i \in 1..Len(ran) : ReadFails(ran[i]) => (ran[i].err = "" /\ ran[i].out = ran[i].in)

(***************************************************************************)
(* C2, amended: the CA-bundle hook whose ConfigMap is not found in the     *)
(* cache leaves the deployment unchanged and returns no error; every other *)
(* failed read (another error of the ConfigMap read, any failed read of    *)
(* the infrastructure object by the region, custom-tags or custom-endpoint *)
(* hook) leaves the deployment unchanged and is returned as the hook's     *)
(* error.                                                                  *)
(***************************************************************************)
C2_ReadFailure ==
    \A i \in 1..Len(ran) :
      LET s == ran[i] IN
      /\ (s.hook = "withCustomAWSCABundle" /\ ~s.fault /\ ~ListerFinds) =>
            (s.err = "" /\ s.out = s.in)
      /\ (s.hook = "withCustomAWSCABundle" /\ s.fault) =>
            (s.err \notin {"", MissingContainerErr} /\ s.out = s.in)
      /\ (s.hook \in InfraHooks /\ infra = <<>>) =>
            (s.err = ErrNotFound /\ s.out = s.in)

C2_Witness ==
    /\ Len(ran) = 1
    /\ ran[1].hook = "withCustomEndPoint"
    /\ infra = <<>>
    /\ ran[1].err = ErrNotFound
    /\ lastErr = ErrNotFound

(***************************************************************************)
(* C3 as stated: each of the four hooks returns an error whenever it has   *)
(* data to inject and the deployment has no csi-driver container, and      *)
(* returns the missing-container error in no other situation.              *)
(***************************************************************************)
C3_Original ==
    \A i \in 1..Len(ran) :
      LET s == ran[i] IN
      s.hook \in InfraHooks \cup {"withCustomAWSCABundle"} =>
        /\ (Necessary(s) /\ ~HasContainer(s.in, "csi-driver")) => s.err # ""
        /\ s.err = MissingContainerErr => (Necessary(s) /\ ~HasContainer(s.in, "csi-driver"))

(***************************************************************************)
(* C3, amended: the CA-bundle hook returns the missing-container error     *)
(* exactly when its bundle is present and the deployment has no csi-driver *)
(* container; the region, custom-tags and custom-endpoint hooks in that    *)
(* situation return no error and leave the deployment unchanged.           *)
(***************************************************************************)
C3_MissingContainer ==
    \A i \in 1..Len(ran) :
      LET s == ran[i] IN
      /\ s.hook = "withCustomAWSCABundle" =>
            (s.err = MissingContainerErr <=>
                (Necessary(s) /\ ~HasContainer(s.in, "csi-driver")))
      /\ s.hook \in InfraHooks =>
            /\ s.err # MissingContainerErr
            /\ (Necessary(s) /\ ~HasContainer(s.in, "csi-driver")) =>
                  (s.err = "" /\ s.out = s.in)

C3_Witness ==
    /\ Len(ran) = 1
    /\ ran[1].hook = "withAWSRegion"
    /\ Necessary(ran[1])
    /\ ~HasContainer(ran[1].in, "csi-driver")
    /\ ran[1].err = ""
    /\ ran[1].out = ran[1].in

(***************************************************************************)
(* Which mutations a deployment carries.                                   *)
(***************************************************************************)
HasArgPrefix(c, prefix) ==
    \E i \in 1..Len(c.Args) :
        Len(c.Args[i]) >= Len(prefix) /\ SubSeq(c.Args[i], 1, Len(prefix)) = prefix

AnyContainer(d, P(_)) == \E i \in 1..Len(d.Containers) : P(d.Containers[i])
ContainerNamesOf(d) == [i \in 1..Len(d.Containers) |-> d.Containers[i].Name]

HasCABundle(d) ==
    \/ HasVolume(d, "ca-bundle")
    \/ AnyContainer(d, LAMBDA c : HasEnv(c, "AWS_CA_BUNDLE") \/ HasMount(c, "ca-bundle"))
HasRegion(d) == AnyContainer(d, LAMBDA c : HasEnv(c, "AWS_REGION"))
HasTags(d) == AnyContainer(d, LAMBDA c : HasArgPrefix(c, "--extra-tags="))
HasEndpoint(d) == AnyContainer(d, LAMBDA c : HasEnv(c, "AWS_EC2_ENDPOINT"))

\* a mutation of the standalone set
StandaloneMutated(d) ==
    HasCABundle(d) \/ HasRegion(d) \/ HasTags(d) \/ HasEndpoint(d) \/ d.Namespace # base.Namespace

\* a mutation of the hosted set
HostedMutated(d) ==
    \/ d.PriorityClassName = "hypershift-control-plane"
    \/ HasVolume(d, "hosted-kubeconfig")
    \/ HasContainer(d, "token-minter")
    \/ AnyContainer(d, LAMBDA c : HasEnv(c, "KUBECONFIG") \/ HasMount(c, "hosted-kubeconfig")
                                   \/ HasArgPrefix(c, "--kubeconfig="))
    \/ \E i \in 1..Len(d.Volumes) :
          d.Volumes[i].Name = "bound-sa-token" /\ d.Volumes[i].VolumeSource.Kind = "EmptyDir"
    \/ ContainerNamesOf(d) # ContainerNamesOf(base)
    \/ Len(d.Volumes) < Len(base.Volumes)

\* every mutation of the hosted set
HostedApplied(d) ==
    /\ d.PriorityClassName = "hypershift-control-plane"
    /\ d.Replicas = 1
    /\ HasVolume(d, "hosted-kubeconfig")
    /\ HasContainer(d, "token-minter")
    /\ ~HasVolume(d, "metrics-serving-cert")
    /\ ~AnyContainer(d, LAMBDA c : c.Name \in {"driver-kube-rbac-proxy",
            "provisioner-kube-rbac-proxy", "attacher-kube-rbac-proxy",
            "resizer-kube-rbac-proxy", "snapshotter-kube-rbac-proxy"})

(***************************************************************************)
(* C7 as stated: the deployment applied under hosted topology carries the  *)
(* hosted mutations and no standalone mutation, and the deployment applied *)
(* under standalone topology carries no hosted mutation.                   *)
(***************************************************************************)
C7_Original ==
    applied # <<>> =>
        IF isHypershift
        THEN HostedApplied(applied[1]) /\ ~StandaloneMutated(applied[1])
        ELSE ~HostedMutated(applied[1])

(***************************************************************************)
(* C7, amended: the flag selects the hosted mutations only. Under hosted   *)
(* topology the hosted mutations are applied together with the namespace   *)
(* override and the region, tag and endpoint injection, whose hooks run    *)
(* under both topologies; only the CA-bundle volume and env are never      *)
(* added there. Under standalone topology none of the hosted mutations is  *)
(* applied. The flag is the same in every tick.                            *)
(***************************************************************************)
C7_Applied ==
    applied # <<>> =>
        /\ applied[1].Namespace = controlPlaneNamespace
        /\ IF isHypershift
           THEN HostedApplied(applied[1]) /\ ~HasCABundle(applied[1])
           ELSE ~HostedMutated(applied[1])

C7_Injected ==
    (ControllerSync /\ lastErr' = "" /\ HasAWS /\ HasContainer(base, "csi-driver")) =>
        /\ TheRegion # "" <=> HasRegion(applied'[1])
        /\ Len(TheTags) > 0 <=> HasTags(applied'[1])
        /\ TheEC2URL # "" <=> HasEndpoint(applied'[1])

C7_Topology ==
    /\ [](C7_Applied)
    /\ [][C7_Injected]_vars
    /\ [][isHypershift' = isHypershift]_vars

C7_Witness ==
    /\ isHypershift
    /\ applied # <<>>
    /\ HostedApplied(applied[1])
    /\ applied[1].Namespace = "clusters-hosted"
    /\ HasRegion(applied[1]) /\ HasTags(applied[1]) /\ HasEndpoint(applied[1])

(***************************************************************************)
(* C8: under hosted topology the hosted deployment hook removes every      *)
(* kube-rbac-proxy container, gives every remaining CSI sidecar exactly    *)
(* one --kubeconfig argument, one KUBECONFIG env var and one               *)
(* hosted-kubeconfig mount at /etc/hosted-kubernetes, leaves the other     *)
(* containers as they were and in their order, and backs every             *)
(* bound-sa-token volume by an in-memory empty directory.                  *)
(***************************************************************************)
IsRBACProxyName(n) ==
    n \in {"driver-kube-rbac-proxy", "provisioner-kube-rbac-proxy",
           "attacher-kube-rbac-proxy", "resizer-kube-rbac-proxy",
           "snapshotter-kube-rbac-proxy"}
IsCSISidecarName(n) == n \in {"csi-provisioner", "csi-attacher", "csi-snapshotter", "csi-resizer"}

GainedKubeconfig(before, after) ==
    /\ after.Args = Append(before.Args, "--kubeconfig=$(KUBECONFIG)")
    /\ Len(after.Env) = Len(before.Env) + 1
    /\ SubSeq(after.Env, 1, Len(before.Env)) = before.Env
    /\ after.Env[Len(after.Env)].Name = "KUBECONFIG"
    /\ Len(after.VolumeMounts) = Len(before.VolumeMounts) + 1
    /\ SubSeq(after.VolumeMounts, 1, Len(before.VolumeMounts)) = before.VolumeMounts
    /\ after.VolumeMounts[Len(after.VolumeMounts)].Name = "hosted-kubeconfig"
    /\ after.VolumeMounts[Len(after.VolumeMounts)].MountPath = "/etc/hosted-kubernetes"
    /\ [after EXCEPT !.Args = before.Args, !.Env = before.Env,
                     !.VolumeMounts = before.VolumeMounts] = before

C8_HostedContainers ==
    isHypershift =>
      \A i \in Steps("withHypershiftDeploymentHook") :
        LET before == ran[i].in.Containers
            after == ran[i].out.Containers
            kept == SelectSeq(before, LAMBDA c : ~IsRBACProxyName(c.Name))
        IN  /\ ran[i].err = ""
            /\ \A j \in 1..Len(after) : ~IsRBACProxyName(after[j].Name)
            /\ Len(after) = Len(kept) + 1
            /\ \A j \in 1..Len(kept) :
                 IF IsCSISidecarName(kept[j].Name)
                 THEN GainedKubeconfig(kept[j], after[j])
                 ELSE after[j] = kept[j]
            /\ \A j \in 1..Len(ran[i].out.Volumes) :
                 ran[i].out.Volumes[j].Name = "bound-sa-token" =>
                    ran[i].out.Volumes[j].VolumeSource =
                        [Kind |-> "EmptyDir", Ref |-> "", Medium |-> "Memory"]

C8_Witness ==
    /\ isHypershift
    /\ Steps("withHypershiftDeploymentHook") = {1}
    /\ HasContainer(ran[1].in, "driver-kube-rbac-proxy")
    /\ HasContainer(ran[1].in, "csi-provisioner")
    /\ HasContainer(ran[1].in, "csi-driver")
    /\ HasVolume(ran[1].in, "bound-sa-token")
    /\ ~HasContainer(ran[1].out, "driver-kube-rbac-proxy")
    /\ HasVolume(ran[1].out, "bound-sa-token")
    /\ applied # <<>>

(***************************************************************************)
(* C9: under standalone topology, with AWS infrastructure metadata, the    *)
(* region hook appends AWS_REGION with the region to the env of the        *)
(* csi-driver container when the region is not empty, and the custom-tags  *)
(* hook appends one --extra-tags= argument, the tags' key=value pairs      *)
(* joined by commas in their order, to its args when there is a tag;       *)
(* nothing else changes, and with no tags or an empty region the hook      *)
(* changes nothing.                                                        *)
(***************************************************************************)
RECURSIVE TagList(_)
TagList(tags) ==
    IF Len(tags) = 1 THEN tags[1].Key \o "=" \o tags[1].Value
    ELSE TagList(SubSeq(tags, 1, Len(tags) - 1)) \o "," \o
         tags[Len(tags)].Key \o "=" \o tags[Len(tags)].Value

\* step s changed nothing but the csi-driver containers, each as Change says
OnlyDriverChanged(s, Change(_)) ==
    /\ s.err = ""
    /\ [s.out EXCEPT !.Containers = s.in.Containers] = s.in
    /\ Len(s.out.Containers) = Len(s.in.Containers)
    /\ \A j \in 1..Len(s.in.Containers) :
         s.out.Containers[j] =
            IF s.in.Containers[j].Name = "csi-driver" THEN Change(s.in.Containers[j])
            ELSE s.in.Containers[j]

C9_RegionAndTags ==
    (~isHypershift /\ HasAWS) =>
      /\ \A i \in Steps("withAWSRegion") :
           IF TheRegion = "" THEN ran[i].err = "" /\ ran[i].out = ran[i].in
           ELSE OnlyDriverChanged(ran[i],
                  LAMBDA c : [c EXCEPT !.Env =
                                 Append(@, [Name |-> "AWS_REGION", Value |-> TheRegion])])
      /\ \A i \in Steps("withCustomTags") :
           /\ IF Len(TheTags) = 0 THEN ran[i].err = "" /\ ran[i].out = ran[i].in
              ELSE OnlyDriverChanged(ran[i],
                     LAMBDA c : [c EXCEPT !.Args =
                                    Append(@, "--extra-tags=" \o TagList(TheTags))])
           /\ \A j \in 1..Len(ran[i].out.Containers) :
                LET c == ran[i].out.Containers[j] IN
                c.Name = "csi-driver" =>
                  /\ TheRegion # "" =>
                        \E k \in 1..Len(c.Env) :
                            c.Env[k] = [Name |-> "AWS_REGION", Value |-> TheRegion]
                  /\ TheRegion = "" => ~HasEnv(c, "AWS_REGION")
                  /\ Len(TheTags) = 0 => ~HasArgPrefix(c, "--extra-tags=")

C9_Witness ==
    /\ ~isHypershift
    /\ HasAWS
    /\ TheRegion = "us-east-1"
    /\ TheTags = <<[Key |-> "owner", Value |-> "alice"], [Key |-> "env", Value |-> "prod"]>>
    /\ \E i \in Steps("withCustomTags") : \E j \in 1..Len(ran[i].out.Containers) :
         LET c == ran[i].out.Containers[j] IN
         /\ c.Name = "csi-driver"
         /\ c.Args[Len(c.Args)] = "--extra-tags=owner=alice,env=prod"
         /\ \E k \in 1..Len(c.Env) : c.Env[k] = [Name |-> "AWS_REGION", Value |-> "us-east-1"]

(***************************************************************************)
(* C10: the CA-bundle hook whose lister holds no ConfigMap, or one without *)
(* the key ca-bundle.pem, changes nothing and returns no error; with the   *)
(* ConfigMap, the key and a csi-driver container it appends one ca-bundle  *)
(* volume referencing the ConfigMap and gives the first csi-driver         *)
(* container AWS_CA_BUNDLE=/etc/ca/ca-bundle.pem and a read-only ca-bundle *)
(* mount at /etc/ca, the env path lying under the mount path.              *)
(***************************************************************************)
PathUnder(path, dir) ==
    Len(path) > Len(dir) + 1 /\ SubSeq(path, 1, Len(dir) + 1) = dir \o "/"

C10_CABundle ==
    \A i \in Steps("withCustomAWSCABundle") :
      LET s == ran[i]
          drivers == {j \in 1..Len(s.in.Containers) : s.in.Containers[j].Name = "csi-driver"}
      IN
      ~s.fault =>
        /\ ~BundlePresent =>
             (s.err = "" /\ s.out = s.in /\ ~HasCABundle(s.out))
        /\ (BundlePresent /\ drivers # {}) =>
             LET k == CHOOSE j \in drivers : \A l \in drivers : j <= l
                 c == s.out.Containers[k]
             IN  /\ s.err = ""
                 /\ s.out.Volumes =
                      Append(s.in.Volumes,
                             [Name |-> "ca-bundle",
                              VolumeSource |-> [Kind |-> "ConfigMap", Ref |-> hookConfigMap[2],
                                                Medium |-> ""]])
                 /\ c.Env = Append(s.in.Containers[k].Env,
                                   [Name |-> "AWS_CA_BUNDLE", Value |-> "/etc/ca/ca-bundle.pem"])
                 /\ c.VolumeMounts =
                      Append(s.in.Containers[k].VolumeMounts,
                             [Name |-> "ca-bundle", MountPath |-> "/etc/ca", ReadOnly |-> TRUE])
                 /\ PathUnder(c.Env[Len(c.Env)].Value,
                              c.VolumeMounts[Len(c.VolumeMounts)].MountPath)
                 /\ [s.out EXCEPT !.Volumes = s.in.Volumes,
                                  !.Containers[k].Env = s.in.Containers[k].Env,
                                  !.Containers[k].VolumeMounts =
                                      s.in.Containers[k].VolumeMounts] = s.in

C10_Witness ==
    /\ BundlePresent
    /\ \E i \in Steps("withCustomAWSCABundle") :
         /\ ran[i].err = ""
         /\ HasVolume(ran[i].out, "ca-bundle")
         /\ ~HasVolume(ran[i].in, "ca-bundle")
         /\ AnyContainer(ran[i].out, LAMBDA c : c.Name = "csi-driver" /\ HasEnv(c, "AWS_CA_BUNDLE"))
    /\ applied # <<>> /\ HasCABundle(applied[1])

(***************************************************************************)
(* C11: the cluster state being fixed, a tick whose reads fail as those of *)
(* the tick before it failed runs the same hooks on the same inputs with   *)
(* the same outputs and errors, and applies the same deployment: every     *)
(* tick starts from the asset, never from what an earlier tick produced.   *)
(***************************************************************************)
SameReads == ran # <<>> /\ ran' # <<>> /\ ran'[1].fault = ran[1].fault

C11_FromAsset ==
    ran # <<>> =>
      /\ ran[1].in = base
      /\ lastErr = ran[Len(ran)].err
      /\ lastErr = "" => applied = <<ran[Len(ran)].out>>

HookOrder ==
    <<"withHypershiftDeploymentHook", "withHypershiftReplicasHook",
      "withNamespaceDeploymentHook", "WithSecretHashAnnotationHook",
      "WithObservedProxyDeploymentHook", "withCustomAWSCABundle", "withAWSRegion",
      "withCustomTags", "withCustomEndPoint", "WithCABundleDeploymentHook">>

C12_Order ==
    /\ Len(ran) <= Len(HookOrder)
    /\ \A i \in 1..Len(ran) :
         /\ ran[i].hook = HookOrder[i]
         /\ ran[i].in = IF i = 1 THEN base ELSE ran[i - 1].out
         /\ (isHypershift /\ i > 1) =>
              /\ HasContainer(ran[i].in, "token-minter")
              /\ \A j \in 1..Len(ran[i].in.Containers) :
                   ~IsRBACProxyName(ran[i].in.Containers[j].Name)
    /\ (ran # <<>> /\ lastErr = "") => Len(ran) = Len(HookOrder)

C12_Witness ==
    /\ isHypershift
    /\ Len(ran) = 10
    /\ HasContainer(base, "driver-kube-rbac-proxy")
    /\ HasContainer(base, "csi-driver")
    /\ ran[1].out # ran[1].in
    /\ \E i \in Steps("withCustomTags") :
         /\ ran[i].out # ran[i].in
         /\ HasContainer(ran[i].in, "token-minter")
         /\ ~HasContainer(ran[i].in, "driver-kube-rbac-proxy")

(***************************************************************************)
(* C13: RunOperator never returns nil; once every constructor has          *)
(* succeeded it returns only after the root context is cancelled, and then *)
(* the error "stopped"; and once the context is cancelled it returns.      *)
(***************************************************************************)
StartupSucceeded == op.failed = "" /\ op.pc > Len(Body)

C13_NeverNil == op.returned => op.ret # ""

C13_OnlyOnCancel ==
    (op.returned /\ op.failed = "") =>
        (StartupSucceeded /\ op.ctxDone /\ op.ret = "stopped")

C13_Stopped ==
    /\ [](C13_NeverNil /\ C13_OnlyOnCancel)
    /\ [][(StartupSucceeded /\ ~op.ctxDone) => ~op'.returned]_vars
    /\ (op.ctxDone ~> op.returned)

C13_Witness ==
    /\ op.returned
    /\ op.ret = "stopped"
    /\ op.ctxDone
    /\ {"controlPlaneCSIControllerSet", "guestCSIControllerSet"} \subseteq op.started
    /\ ran # <<>>
    /\ gate.decision # "None"

(***************************************************************************)
(* C14: no started goroutine stops before the root context is cancelled,   *)
(* and each controller set makes progress whatever the ticks of the other  *)
(* return: if the guest set stays running and the CRD stays, the snapshot  *)
(* class is installed, also when every deployment tick fails; if the       *)
(* management-plane set stays running with an Infrastructure to read and a *)
(* csi-driver container, a deployment is applied, also when probes fail.   *)
(***************************************************************************)
LoopAlive(name) == name \in op.started /\ ~op.ctxDone

C14_GuestProgress ==
    <>[](LoopAlive("guestCSIControllerSet") /\ crdExists) => <>snapshotClass

C14_ManagementProgress ==
    <>[](LoopAlive("controlPlaneCSIControllerSet") /\ infra # <<>>
         /\ HasContainer(base, "csi-driver")) => <>(applied # <<>>)

C14_Independent ==
    /\ [][~op'.ctxDone => op.started \subseteq op'.started]_vars
    /\ C14_GuestProgress
    /\ C14_ManagementProgress

C14_Witness ==
    /\ ~op.ctxDone
    /\ \/ /\ lastErr # ""
          /\ applied = <<>>
          /\ infra = <<>>
          /\ gate.decision = "Install"
          /\ snapshotClass
       \/ /\ gate.probeErr = "internal error"
          /\ ~snapshotClass
          /\ lastErr = ""
          /\ applied # <<>>

(***************************************************************************)
(* C15: a run of the hooks on a fresh copy of the asset gives no container *)
(* two env vars, arguments or mounts alike and adds at most one            *)
(* hosted-kubeconfig volume, one ca-bundle volume and one token-minter     *)
(* container; a second run on the output of the first appends to every     *)
(* container again what the first run appended to it, and doubles the      *)
(* hosted-kubeconfig and ca-bundle volumes and the token-minter container. *)
(***************************************************************************)
Count(s, P(_)) == Cardinality({i \in 1..Len(s) : P(s[i])})
CountNamed(s, name) == Count(s, LAMBDA x : x.Name = name)
NoRepeat(s) == \A i, j \in 1..Len(s) : s[i] = s[j] => i = j

FreshRun == ran # <<>> /\ ran[1].in = base
Rerun == ran # <<>> /\ ran[1].in # base

C15_OncePerFreshRun ==
    (FreshRun /\ lastErr = "") =>
      LET d == ran[Len(ran)].out IN
      /\ \A j \in 1..Len(d.Containers) :
           /\ NoRepeat(d.Containers[j].Env)
           /\ NoRepeat(d.Containers[j].Args)
           /\ NoRepeat(d.Containers[j].VolumeMounts)
      /\ CountNamed(d.Volumes, "hosted-kubeconfig") <= 1
      /\ CountNamed(d.Volumes, "ca-bundle") <= 1
      /\ CountNamed(d.Containers, "token-minter") <= 1

C15_TwicePerRerun ==
    (Rerun /\ lastErr = "") =>
      LET first == ran[1].in
          second == ran[Len(ran)].out
          minters == CountNamed(first.Containers, "token-minter")
      IN
      /\ Len(second.Containers) = Len(first.Containers) + minters
      /\ CountNamed(second.Containers, "token-minter") = 2 * minters
      /\ CountNamed(second.Volumes, "hosted-kubeconfig") =
            2 * CountNamed(first.Volumes, "hosted-kubeconfig")
      /\ CountNamed(second.Volumes, "ca-bundle") = 2 * CountNamed(first.Volumes, "ca-bundle")
      /\ \A j \in 1..Len(first.Containers) :
           LET c1 == first.Containers[j]
               c2 == second.Containers[j]
           IN  /\ c2.Name = c1.Name
               /\ c1.Name # "token-minter" =>
                    \* the asset gives every container one env var, argument and mount
                    /\ c2.Env = c1.Env \o Tail(c1.Env)
                    /\ c2.Args = c1.Args \o Tail(c1.Args)
                    /\ c2.VolumeMounts = c1.VolumeMounts \o Tail(c1.VolumeMounts)
               /\ c1.Name = "token-minter" => c2 = c1

C15_NoDeduplication == C15_OncePerFreshRun /\ C15_TwicePerRerun

C15_Witness ==
    /\ Rerun
    /\ lastErr = ""
    /\ LET second == ran[Len(ran)].out IN
       \/ /\ isHypershift
          /\ CountNamed(second.Containers, "token-minter") = 2
          /\ CountNamed(second.Volumes, "hosted-kubeconfig") = 2
          /\ \E j \in 1..Len(second.Containers) :
               /\ second.Containers[j].Name = "csi-provisioner"
               /\ CountNamed(second.Containers[j].Env, "KUBECONFIG") = 2
          /\ \E j \in 1..Len(second.Containers) :
               /\ second.Containers[j].Name = "csi-driver"
               /\ CountNamed(second.Containers[j].Env, "AWS_REGION") = 2
               /\ Count(second.Containers[j].Args,
                        LAMBDA a : a = "--extra-tags=owner=alice,env=prod") = 2
       \/ /\ ~isHypershift
          /\ CountNamed(second.Volumes, "ca-bundle") = 2
          /\ \E j \in 1..Len(second.Containers) :
               /\ CountNamed(second.Containers[j].Env, "AWS_CA_BUNDLE") = 2
               /\ CountNamed(second.Containers[j].VolumeMounts, "ca-bundle") = 2

(***************************************************************************)
(* C16: after a successful hosted run, every hosted-kubeconfig mount the   *)
(* hooks added, on the CSI sidecars and on token-minter, names a volume of *)
(* the pod; the bound-sa-token mount of token-minter names a volume of the *)
(* pod exactly when the asset has a volume of that name, since the hooks   *)
(* change such a volume but never add one.                                 *)
(***************************************************************************)
HostedRun == isHypershift /\ FreshRun /\ lastErr = ""

\* the mounts of container c that the hooks added
AddedMounts(c) ==
    {c.VolumeMounts[k].Name : k \in {l \in 1..Len(c.VolumeMounts) :
        \/ c.Name = "token-minter"
        \/ (IsCSISidecarName(c.Name) /\ c.VolumeMounts[l].Name = "hosted-kubeconfig")}}

\* C16 as the claim states it: every added mount names a volume of the pod
C16_Original ==
    HostedRun =>
      LET d == ran[Len(ran)].out IN
      \A j \in 1..Len(d.Containers) :
        \A m \in AddedMounts(d.Containers[j]) : HasVolume(d, m)

C16_Mounts ==
    HostedRun =>
      LET d == ran[Len(ran)].out IN
      /\ applied = <<d>>
      /\ \A j \in 1..Len(d.Containers) :
           LET c == d.Containers[j] IN
           /\ AddedMounts(c) \subseteq {"hosted-kubeconfig", "bound-sa-token"}
           /\ "hosted-kubeconfig" \in AddedMounts(c) => HasVolume(d, "hosted-kubeconfig")
           /\ c.Name = "token-minter" =>
                /\ AddedMounts(c) = {"hosted-kubeconfig", "bound-sa-token"}
                /\ HasVolume(d, "bound-sa-token") <=> HasVolume(base, "bound-sa-token")
      /\ HasContainer(d, "token-minter")

C16_Witness ==
    /\ HostedRun
    /\ ~HasVolume(base, "bound-sa-token")
    /\ LET d == ran[Len(ran)].out IN
       /\ ~HasVolume(d, "bound-sa-token")
       /\ HasVolume(d, "hosted-kubeconfig")
       /\ \E j \in 1..Len(d.Containers) :
            /\ d.Containers[j].Name = "token-minter"
            /\ HasMount(d.Containers[j], "bound-sa-token")
       /\ \E j \in 1..Len(d.Containers) :
            /\ d.Containers[j].Name = "csi-provisioner"
            /\ HasMount(d.Containers[j], "hosted-kubeconfig")

(***************************************************************************)
(* C17: the cloud-config ConfigMap informer is started, and is an event    *)
(* source of the controller deployment loop, under standalone topology     *)
(* only. In a hosted control plane it never syncs, so whatever ConfigMap   *)
(* 'user-ca-bundle' exists there, the CA-bundle hook finds nothing: it     *)
(* returns no error unless the read itself fails, changes nothing, and no  *)
(* applied deployment has a ca-bundle volume or AWS_CA_BUNDLE env.         *)
(***************************************************************************)
C17_StandaloneOnly ==
    /\ ("controlPlaneCloudConfigInformers" \in op.started) => ~isHypershift
    /\ ("controlPlaneCloudConfigInformer" \in controlPlaneInformersForEvents(isHypershift))
          <=> ~isHypershift
    /\ cloudConfigSynced => ~isHypershift

C17_HostedFindsNothing ==
    isHypershift =>
      /\ \A i \in Steps("withCustomAWSCABundle") :
           /\ ran[i].out = ran[i].in
           /\ ~ran[i].fault => ran[i].err = ""
           /\ ~HasCABundle(ran[i].out)
      /\ applied # <<>> => ~HasCABundle(applied[1])

C17_InformerStandaloneOnly == C17_StandaloneOnly /\ C17_HostedFindsNothing

C17_Witness ==
    /\ isHypershift
    /\ configMaps[<<"clusters-hosted", "user-ca-bundle">>] # <<>>
    /\ "ca-bundle.pem" \in DOMAIN configMaps[<<"clusters-hosted", "user-ca-bundle">>][1].Data
    /\ lastErr = ""
    /\ \E i \in Steps("withCustomAWSCABundle") : ran[i].out = ran[i].in /\ ran[i].err = ""
    /\ applied # <<>>
    /\ HasContainer(applied[1], "csi-driver")
    /\ ~HasCABundle(applied[1])

(***************************************************************************)
(* C18: when a constructor fails, RunOperator returns the constructor's    *)
(* error (that of the CA bundle syncer wrapped in a message) and has       *)
(* started no informer and no controller: nothing is running then or       *)
(* later, and no tick, informer sync or mirror pass has taken place.       *)
(***************************************************************************)
Collaborators ==
    {"controlPlaneDynamicClient", "guestKubeConfig", "guestAPIExtClient",
     "guestDynamicClient", "guestOperatorClient", "caSyncController"}

\* error e is error inner, or wraps it behind a message
Wraps(e, inner) ==
    \/ e = inner
    \/ /\ Len(e) > Len(inner) + 2
       /\ SubSeq(e, Len(e) - Len(inner) + 1, Len(e)) = inner
       /\ SubSeq(e, Len(e) - Len(inner) - 1, Len(e) - Len(inner)) = ": "

NothingRan ==
    /\ ran = <<>> /\ applied = <<>>
    /\ gate.decision = "None" /\ ~snapshotClass
    /\ ~cloudConfigSynced
    /\ ~lastSync.done

C18_FailedStartup ==
    (op.returned /\ op.failed # "") =>
      /\ op.failed \in Collaborators
      /\ Wraps(op.ret, op.failed \o ": construction failed")
      /\ op.failed # "caSyncController" => op.ret = op.failed \o ": construction failed"
      /\ op.started = {}
      /\ NothingRan

C18_NoStartBeforeConstructed ==
    op.started # {} => (op.failed = "" /\ \A i \in 1..Len(Body) :
                           Body[i].kind = "new" => i < op.pc)

C18_StartupError ==
    /\ [](C18_FailedStartup /\ C18_NoStartBeforeConstructed)
    /\ [][op.returned => (op'.returned /\ op'.ret = op.ret /\ op'.started = op.started)]_vars

C18_Witness ==
    /\ op.returned
    /\ op.failed = "caSyncController"
    /\ op.ret = "could not create the custom CA bundle syncer: caSyncController: construction failed"
    /\ op.started = {}
    /\ ~isHypershift

(***************************************************************************)
(* C19: in a hosted control plane the hosted deployment hook removes the   *)
(* first volume named metrics-serving-cert and no other, keeps the names   *)
(* of the remaining volumes in their order, and appends one                *)
(* hosted-kubeconfig volume backed by the secret admin-kubeconfig: the     *)
(* pod has afterwards one volume more, less one if a metrics-serving-cert  *)
(* volume was there.                                                       *)
(***************************************************************************)
VolumeNamesOf(volumes) == [i \in 1..Len(volumes) |-> volumes[i].Name]

CertIndexes(volumes) == {i \in 1..Len(volumes) : volumes[i].Name = "metrics-serving-cert"}

\* names without the entry at index k
DropIndex(names, k) ==
    [i \in 1..(Len(names) - 1) |-> IF i < k THEN names[i] ELSE names[i + 1]]

C19_HostedVolumes ==
    isHypershift =>
      \A i \in Steps("withHypershiftDeploymentHook") :
        LET before == ran[i].in.Volumes
            after == ran[i].out.Volumes
            certs == CertIndexes(before)
            kept == IF certs = {} THEN VolumeNamesOf(before)
                    ELSE DropIndex(VolumeNamesOf(before),
                                   CHOOSE k \in certs : \A l \in certs : k <= l)
        IN  /\ Len(after) = Len(before) + 1 - (IF certs = {} THEN 0 ELSE 1)
            /\ VolumeNamesOf(after) = Append(kept, "hosted-kubeconfig")
            /\ after[Len(after)] =
                 [Name |-> "hosted-kubeconfig",
                  VolumeSource |-> [Kind |-> "Secret", Ref |-> "admin-kubeconfig",
                                    Medium |-> ""]]
            /\ CountNamed(after, "hosted-kubeconfig") =
                 CountNamed(before, "hosted-kubeconfig") + 1
            /\ Cardinality(CertIndexes(after)) =
                 IF certs = {} THEN 0 ELSE Cardinality(certs) - 1

C19_Witness ==
    /\ isHypershift
    /\ \E i \in Steps("withHypershiftDeploymentHook") :
         /\ VolumeNamesOf(ran[i].in.Volumes) = <<"metrics-serving-cert", "metrics-serving-cert">>
         /\ VolumeNamesOf(ran[i].out.Volumes) = <<"metrics-serving-cert", "hosted-kubeconfig">>

(***************************************************************************)
(* C20: in a hosted control plane the replicas hook sets the replica count *)
(* to 1 whatever the asset and the number of nodes say, and the applied    *)
(* deployment has one replica; on a standalone cluster the count follows   *)
(* the nodes: 2 with more than one node, 1 otherwise.                      *)
(***************************************************************************)
C20_Replicas ==
    /\ \A i \in Steps("withHypershiftReplicasHook") :
         /\ ran[i].err = ""
         /\ ran[i].out = [ran[i].in EXCEPT !.Replicas =
                            IF isHypershift THEN 1 ELSE IF nodes > 1 THEN 2 ELSE 1]
    /\ (isHypershift /\ applied # <<>>) => applied[1].Replicas = 1
    /\ (~isHypershift /\ applied # <<>>) =>
          applied[1].Replicas = (IF nodes > 1 THEN 2 ELSE 1)

C20_Witness ==
    /\ isHypershift
    /\ base.Replicas = 3
    /\ nodes = 2
    /\ applied # <<>>
    /\ applied[1].Replicas = 1
    /\ \E i \in Steps("withHypershiftReplicasHook") :
         ran[i].in.Replicas = 3 /\ ran[i].out.Replicas = 1

(***************************************************************************)
(* C21: the custom-endpoint hook that finds the Infrastructure returns no  *)
(* error. Without an AWS platform status, without a service endpoint named *)
(* ec2, or when the last endpoint of that name has an empty URL, it leaves *)
(* the deployment as it was; otherwise it appends one env var              *)
(* AWS_EC2_ENDPOINT, the URL of the last ec2 endpoint, to the first        *)
(* container named csi-driver and changes nothing else.                    *)
(***************************************************************************)
\* where in the deployment the env vars named AWS_EC2_ENDPOINT are
EndpointEnvs(d) ==
    UNION {{<<j, k>> : k \in {l \in 1..Len(d.Containers[j].Env) :
                                d.Containers[j].Env[l].Name = "AWS_EC2_ENDPOINT"}} :
           j \in 1..Len(d.Containers)}

C21_CustomEndpoint ==
    \A i \in Steps("withCustomEndPoint") :
      LET s == ran[i]
          drivers == {j \in 1..Len(s.in.Containers) : s.in.Containers[j].Name = "csi-driver"}
          nothing == ~HasAWS \/ EC2Indexes = {} \/ TheEC2URL = ""
      IN
      infra # <<>> =>
        /\ s.err = ""
        /\ nothing => s.out = s.in
        /\ drivers = {} => s.out = s.in
        /\ (~nothing /\ drivers # {}) =>
             LET k == CHOOSE j \in drivers : \A l \in drivers : j <= l IN
             /\ s.out = [s.in EXCEPT !.Containers[k].Env =
                            Append(@, [Name |-> "AWS_EC2_ENDPOINT",
                                       Value |-> TheEndpoints[Max(EC2Indexes)].URL])]
             /\ Cardinality(EndpointEnvs(s.out)) = Cardinality(EndpointEnvs(s.in)) + 1
        /\ Cardinality(EndpointEnvs(s.out)) <= 1

C21_Witness ==
    /\ HasAWS
    /\ TheEndpoints = <<[Name |-> "ec2", URL |-> "https://ec2.local"],
                        [Name |-> "ec2", URL |-> "https://ec2.other"]>>
    /\ \E i \in Steps("withCustomEndPoint") :
         LET d == ran[i].out IN
         /\ ran[i].err = ""
         /\ Len(d.Containers) >= 3
         /\ d.Containers[2].Name = "csi-driver" /\ d.Containers[3].Name = "csi-driver"
         /\ d.Containers[2].Env[Len(d.Containers[2].Env)] =
              [Name |-> "AWS_EC2_ENDPOINT", Value |-> "https://ec2.other"]
         /\ ~HasEnv(d.Containers[3], "AWS_EC2_ENDPOINT")

(***************************************************************************)
(* C22: on a standalone cluster the hosted deployment hook returns no      *)
(* error and leaves the deployment as it was: the priority class, the      *)
(* volumes and the containers are those it was given.                      *)
(***************************************************************************)
C22_StandaloneNoOp ==
    ~isHypershift =>
      \A i \in Steps("withHypershiftDeploymentHook") :
        /\ ran[i].err = ""
        /\ ran[i].out.PriorityClassName = ran[i].in.PriorityClassName
        /\ ran[i].out.Volumes = ran[i].in.Volumes
        /\ ran[i].out.Containers = ran[i].in.Containers
        /\ ran[i].out = ran[i].in

C22_Witness ==
    /\ ~isHypershift
    /\ Len(ran) = 1
    /\ ran[1].hook = "withHypershiftDeploymentHook"
    /\ ran[1].err = ""
    /\ ran[1].in = base
    /\ ran[1].out = base
    /\ base.PriorityClassName = ""
    /\ HasContainer(base, "driver-kube-rbac-proxy")
    /\ HasContainer(base, "csi-provisioner")
    /\ HasVolume(base, "metrics-serving-cert")
    /\ HasVolume(base, "bound-sa-token")

====
